---- MODULE Spec2Model ----
(***************************************************************************)
(* Detection-and-scoring pipeline of the Cybersecurity Threat Advisor:     *)
(* RuleEngine (src/src/detection/rule_engine.py), RiskScorer               *)
(* (src/src/risk_assessment/risk_scorer.py), the dashboard's monitoring    *)
(* control (src/src/dashboard/app.py) and the CLI loop (src/main.py).      *)
(*                                                                         *)
(* Numbers: scores, confidences and thresholds are exact decimals in       *)
(* thousandths (0.85 is 850), weights are in hundredths (0.4 is 40).       *)
(* Python strings that the code searches or lower-cases are sequences of   *)
(* one-character strings; strings that are only compared are TLA+ strings. *)
(* A payload value is None, Num(n) or Str(s).                              *)
(***************************************************************************)
EXTENDS Integers, Sequences, FiniteSets, TLC

VARIABLES
    rules,              \* RuleEngine.rules
    event,              \* the Event handed to check_event
    result,             \* what the last call of the RuleEngine returned
    calls,              \* number of check_event calls made on (event, rules)
    scorer,             \* RiskScorer: weights, thresholds, impact_factors
    threat,             \* the Threat dictionary handed to the RiskScorer
    probe,              \* two applications of _classify_risk_level
    monitoring_active,  \* app.py global flag
    wpc,                \* position of every monitoring_loop thread
    rpc,                \* position of every request-handling thread
    resp,               \* the response sent last
    stopped,            \* workers asleep when a stop succeeded, no start since
    running,            \* ThreatAdvisor.running
    cpc,                \* position of the CLI thread in run_continuous
    scan_count,         \* ThreatAdvisor.scan_count
    cycle,              \* events and sink contents of the last scan cycle
    previous_processes, \* SystemMonitor.previous_processes
    sample,             \* what the last call of a collector saw and returned
    dnp,                \* position and locals of every thread in detect_new_processes
    history             \* process sets enumerated and Event lists returned so far

engineVars == <<rules, event, result, calls>>
riskVars   == <<scorer, threat, probe>>
dashVars   == <<monitoring_active, wpc, rpc, resp, stopped>>
cliVars    == <<running, cpc, scan_count>>
monVars    == <<previous_processes, sample, dnp, history>>
vars == <<rules, event, result, calls, scorer, threat, probe, monitoring_active,
          wpc, rpc, resp, stopped, running, cpc, scan_count, cycle,
          previous_processes, sample, dnp, history>>

None == [k |-> "none"]
Num(n) == [k |-> "num", n |-> n]
Str(s) == [k |-> "str", s |-> s]

Min(a, b) == IF a <= b THEN a ELSE b
Max(a, b) == IF a >= b THEN a ELSE b

(***************************************************************************)
(* str.lower(), str.__contains__ and str.endswith on character sequences.  *)
(***************************************************************************)
LowerChar(c) ==
    CASE c = "M" -> "m"
      [] c = "I" -> "i"
      [] c = "N" -> "n"
      [] c = "E" -> "e"
      [] c = "X" -> "x"
      [] OTHER -> c

\* a string compared as it is written, letter case included
as_written(s) == s

lower(s) == [i \in 1..Len(s) |-> LowerChar(s[i])]

Contains(needle, hay) ==
    \E off \in 0..(Len(hay) - Len(needle)) :
        \A i \in 1..Len(needle) : hay[off + i] = needle[i]

EndsWith(hay, suffix) ==
    /\ Len(suffix) <= Len(hay)
    /\ \A i \in 1..Len(suffix) : hay[Len(hay) - Len(suffix) + i] = suffix[i]

\* dict.get(key, default)
Get(d, key, default) == IF key \in DOMAIN d THEN d[key] ELSE default

(***************************************************************************)
(* RuleEngine._match_rule.  Each clause gives "T" (passed or absent),      *)
(* "F" (return False) or "raise" (the Python expression raises); the       *)
(* clauses run in source order and the first one that is not "T" decides.  *)
(***************************************************************************)
ClauseEventType(ev, conditions) ==
    IF "event_type" \notin DOMAIN conditions THEN "T"
    ELSE IF Get(ev, "event_type", "<None>") # conditions["event_type"] THEN "F"
    ELSE "T"

\* process_name_contains and path_contains share their shape
ClauseContains(event_data, conditions, clause, field) ==
    IF clause \notin DOMAIN conditions THEN "T"
    ELSE LET v == Get(event_data, field, Str(<<>>))
         IN  IF v.k # "str" THEN "raise"
             ELSE IF lower(v.s) = <<>> THEN "F"
             ELSE IF ~ \E p \in conditions[clause] : Contains(lower(p), lower(v.s))
                  THEN "F"
             ELSE "T"

ClausePortIn(event_data, conditions) ==
    IF "port_in" \notin DOMAIN conditions THEN "T"
    ELSE LET remote_port == Get(event_data, "remote_port", None)
         IN  IF remote_port.k = "num" /\ remote_port.n \in conditions["port_in"]
             THEN "T" ELSE "F"

\* cpu_percent, connection_count and count share their shape
\* the payload's value has to exceed the threshold
ClauseAbove(event_data, conditions, clause, default) ==
    IF clause \notin DOMAIN conditions THEN "T"
    ELSE LET v == Get(event_data, clause, Num(default))
         IN  IF v.k # "num" THEN "raise"
             ELSE IF v.n <= conditions[clause] THEN "F"
             ELSE "T"

ClauseAtLeast(event_data, conditions, clause, default) ==
    IF clause \notin DOMAIN conditions THEN "T"
    ELSE LET v == Get(event_data, clause, Num(default))
         IN  IF v.k # "num" THEN "raise"
             ELSE IF v.n < conditions[clause] THEN "F"
             ELSE "T"

ClauseExtensionIn(event_data, conditions) ==
    IF "extension_in" \notin DOMAIN conditions THEN "T"
    ELSE LET v == Get(event_data, "file_path", Str(<<>>))
         IN  IF v.k # "str" THEN "raise"
             ELSE IF ~ \E ext \in conditions["extension_in"] :
                          EndsWith(lower(v.s), lower(ext))
                  THEN "F"
             ELSE "T"

\* one passing test is enough for a match
AnyDecided(outcomes) ==
    IF \E i \in 1..Len(outcomes) : outcomes[i] = "raise" THEN "raise"
    ELSE IF \E i \in 1..Len(outcomes) : outcomes[i] = "T" THEN "T" ELSE "F"

RECURSIVE FirstDecided(_)
FirstDecided(outcomes) ==
    IF outcomes = <<>> THEN "T"
    ELSE IF Head(outcomes) # "T" THEN Head(outcomes)
    ELSE FirstDecided(Tail(outcomes))

ClauseOutcomes(ev, rule) ==
    LET conditions == Get(rule, "conditions", <<>>)
        event_data == Get(ev, "data", <<>>)
    IN  << ClauseEventType(ev, conditions),
           ClauseContains(event_data, conditions, "process_name_contains", "process_name"),
           ClausePortIn(event_data, conditions),
           ClauseAtLeast(event_data, conditions, "cpu_percent", 0),
           ClauseContains(event_data, conditions, "path_contains", "file_path"),
           ClauseExtensionIn(event_data, conditions),
           ClauseAtLeast(event_data, conditions, "connection_count", 0),
           ClauseAtLeast(event_data, conditions, "count", 1) >>

_match_rule(ev, rule) == FirstDecided(ClauseOutcomes(ev, rule))

(***************************************************************************)
(* RuleEngine._create_threat_from_rule: rule['id'], ['name'],              *)
(* ['description'], ['category'], ['severity'] and ['confidence'] are      *)
(* subscripted (KeyError when absent); impact and advisory_template are    *)
(* read with .get.                                                         *)
(***************************************************************************)
SubscriptedKeys == {"id", "name", "description", "category", "severity", "confidence"}

_create_threat_from_rule(ev, rule) ==
    IF ~ (SubscriptedKeys \subseteq DOMAIN rule) THEN [kind |-> "raise"]
    ELSE [kind         |-> "threat",
          threat_id    |-> rule["id"],
          threat_name  |-> rule["name"],
          category     |-> rule["category"],
          severity     |-> rule["severity"],
          confidence   |-> rule["confidence"],
          impact       |-> Get(rule, "impact", "unknown"),
          event_data   |-> Get(ev, "data", <<>>),
          rule_matched |-> rule["id"]]

(***************************************************************************)
(* RuleEngine.check_event: the rules in list order, the first match        *)
(* returns; an exception of _match_rule or _create_threat_from_rule leaves *)
(* the loop.                                                               *)
(***************************************************************************)
RECURSIVE check_event_from(_, _, _)
check_event_from(ev, rs, i) ==
    IF i > Len(rs) THEN [kind |-> "none"]
    ELSE LET m == _match_rule(ev, rs[i])
         IN  IF m = "raise" THEN [kind |-> "raise"]
             ELSE IF m = "T" THEN _create_threat_from_rule(ev, rs[i])
             ELSE check_event_from(ev, rs, i + 1)

\* a scan that keeps the last matching rule instead of returning at the first
RECURSIVE check_event_last_from(_, _, _)
check_event_last_from(ev, rs, i) ==
    IF i < 1 THEN [kind |-> "none"]
    ELSE LET m == _match_rule(ev, rs[i])
         IN  IF m = "raise" THEN [kind |-> "raise"]
             ELSE IF m = "T" THEN _create_threat_from_rule(ev, rs[i])
             ELSE check_event_last_from(ev, rs, i - 1)

check_event_last(ev, rs) == check_event_last_from(ev, rs, Len(rs))

check_event(ev, rs) == check_event_from(ev, rs, 1)

(***************************************************************************)
(* Rules and Events the engine is exercised on.  The rules carry every     *)
(* field of a Rule of the data model; BareRule has only the four fields    *)
(* add_rule requires.  Payload values of WellTypedEvents have the type     *)
(* the clause reading them expects; E10 is the Event detect_new_processes  *)
(* builds for a process whose name psutil could not read (None).           *)
(***************************************************************************)
mim  == <<"m", "i", "m">>
MIMx == <<"M", "I", "M", "x">>
nix  == <<"n", "i", "x">>
dotE == <<"x", "e">>
pMIM == <<"n", "M", "i", "m", "X", "E">>

Rule(id, sev, conf, cat, imp, cond) ==
    [id |-> id, name |-> id, description |-> id, category |-> cat,
     severity |-> sev, confidence |-> conf, impact |-> imp,
     conditions |-> cond, advisory_template |-> id]

R1 == Rule("R1", "high", 900, "Malware", "system_control",
           [event_type |-> "process_start", process_name_contains |-> {mim}])
R2 == Rule("R2", "low", 500, "Script Attack", "data_access",
           [event_type |-> "process_start"])
R3 == Rule("R3", "medium", 700, "Resource Abuse", "network_access",
           [event_type |-> "high_cpu", cpu_percent |-> 90])
R4 == Rule("R4", "critical", 1000, "Network Attack", "unlisted",
           [event_type |-> "network_connection", port_in |-> {4444, 31337}])
R5 == Rule("R5", "High", 800, "File Tampering", "privilege_escalation",
           [path_contains |-> {mim}, extension_in |-> {dotE}])
R6 == Rule("R6", "odd", 600, "Brute Force", "data_access",
           [count |-> 5, connection_count |-> 0])
R7 == Rule("R7", "low", 300, "Unlisted", "unknown", <<>>)
\* one clause each: an empty substring, and a count of 1
R10 == Rule("R10", "low", 400, "Script Attack", "data_access",
            [process_name_contains |-> {<<>>}])
R11 == Rule("R11", "medium", 600, "Brute Force", "data_access", [count |-> 1])
BareRule == [id |-> "R8", name |-> "R8", severity |-> "high",
             conditions |-> [event_type |-> "high_memory"]]

FullRules == {R1, R2, R3, R4, R5, R6, R7, R10, R11}

Ev(type, data) == [event_type |-> type, source |-> "monitor", data |-> data]

E1 == Ev("process_start", [process_name |-> Str(MIMx), cpu_percent |-> Num(12)])
E2 == Ev("process_start", [process_name |-> Str(nix)])
E3 == Ev("high_cpu", [process_name |-> Str(nix), cpu_percent |-> Num(95)])
E4 == Ev("high_cpu", [process_name |-> Str(nix), cpu_percent |-> Num(89)])
E5 == Ev("network_connection", [process_name |-> Str(nix), remote_port |-> Num(4444)])
E6 == Ev("file_modified", [file_path |-> Str(pMIM), process_name |-> Str(mim)])
E7 == Ev("auth_failure", [count |-> Num(7)])
E8 == Ev("auth_failure", [count |-> Num(2), connection_count |-> Num(3)])
E9 == Ev("high_memory", [process_name |-> Str(nix)])
E10 == Ev("process_start", [process_name |-> None])
\* a process with an empty name
E12 == Ev("process_start", [process_name |-> Str(<<>>)])

WellTypedEvents == {E1, E2, E3, E4, E5, E6, E7, E8, E9, E12}

MaxRules == 3

\* the lists of at most n pairwise different members of S
ListsOf(S, n) ==
    {s \in UNION {[1..k -> S] : k \in 0..n} :
        \A i, j \in 1..Len(s) : i # j => s[i] # s[j]}

Pending == [kind |-> "pending"]

(***************************************************************************)
(* RiskScorer.  A score is a fraction num/den of exact integers until it   *)
(* is stored; round(x, 3) stores thousandths (ties to even, as Python's    *)
(* round on the exact decimal).                                            *)
(***************************************************************************)
\* str.lower() of the severity and category words
lowerWord(w) ==
    CASE w = "High" -> "high"
      [] w = "Malware" -> "malware"
      [] w = "Brute Force" -> "brute force"
      [] w = "Network Attack" -> "network attack"
      [] w = "Resource Abuse" -> "resource abuse"
      [] w = "File Tampering" -> "file tampering"
      [] w = "Script Attack" -> "script attack"
      [] w = "Unlisted" -> "unlisted"
      [] OTHER -> w

severity_map == [low |-> 250, medium |-> 500, high |-> 850, critical |-> 1000]

_severity_to_score(severity) == Get(severity_map, lowerWord(severity), 500)

\* min(impact_value / 5.0, 1.0), in thousandths
_impact_to_score(sc, impact) ==
    Min(Get(sc.impact_factors, impact, 3) * 200, 1000)

prevalence_map ==
    [c \in {"malware", "brute force", "network attack", "resource abuse",
            "file tampering", "network scan", "privilege escalation",
            "script attack", "data theft", "code injection"} |->
        CASE c = "malware" -> 800
          [] c = "brute force" -> 900
          [] c = "network attack" -> 700
          [] c = "resource abuse" -> 600
          [] c = "file tampering" -> 500
          [] c = "network scan" -> 700
          [] c = "privilege escalation" -> 600
          [] c = "script attack" -> 700
          [] c = "data theft" -> 500
          [] c = "code injection" -> 400]

_estimate_prevalence(th) ==
    Get(prevalence_map, lowerWord(Get(th, "category", "")), 500)

\* the clamp left out
NoClamp(num, den) == num

\* max(0.0, min(1.0, x)) of the fraction num/den
Clamp01(num, den) == Max(0, Min(den, num))

\* round(num/den, 3) of a fraction in [0, 1], in thousandths (1000 divides den)
Round3(num, den) ==
    LET unit == den \div 1000
        q == num \div unit
        r == num % unit
    IN  IF 2 * r < unit THEN q
        ELSE IF 2 * r > unit THEN q + 1
        ELSE IF q % 2 = 0 THEN q ELSE q + 1

\* the comparisons written <= : a score on a threshold falls in the lower band
classify_inclusive_below(sc, num, den) ==
    LET unit == den \div 1000
    IN  IF num <= sc.low_threshold * unit THEN "Low"
        ELSE IF num <= sc.medium_threshold * unit THEN "Medium"
        ELSE IF num <= sc.high_threshold * unit THEN "High"
        ELSE "Critical"

\* _classify_risk_level of the score num/den against thresholds in thousandths
_classify_risk_level(sc, num, den) ==
    LET unit == den \div 1000
    IN  IF num < sc.low_threshold * unit THEN "Low"
        ELSE IF num < sc.medium_threshold * unit THEN "Medium"
        ELSE IF num < sc.high_threshold * unit THEN "High"
        ELSE "Critical"

\* the four sub-scores added without their weights (each counted 0.25)
UnweightedSum(sc, th) ==
    25 * ( _severity_to_score(Get(th, "severity", "medium"))
         + Get(th, "confidence", 500)
         + _impact_to_score(sc, Get(th, "impact", "unknown"))
         + _estimate_prevalence(th) )

\* the weighted sum of calculate_risk, in 1/100000
WeightedSum(sc, th) ==
    sc.severity_weight * _severity_to_score(Get(th, "severity", "medium"))
  + sc.confidence_weight * Get(th, "confidence", 500)
  + sc.impact_weight * _impact_to_score(sc, Get(th, "impact", "unknown"))
  + sc.prevalence_weight * _estimate_prevalence(th)

calculate_risk(sc, th) ==
    LET risk_score == Clamp01(WeightedSum(sc, th), 100000)
    IN  [risk_score |-> Round3(risk_score, 100000),
         risk_level |-> _classify_risk_level(sc, risk_score, 100000),
         risk_components |->
            [severity_score   |-> _severity_to_score(Get(th, "severity", "medium")),
             confidence_score |-> Get(th, "confidence", 500),
             impact_score     |-> _impact_to_score(sc, Get(th, "impact", "unknown")),
             prevalence_score |-> _estimate_prevalence(th)]]
        @@ th

\* only the first multiplier present is applied
AdjustedOnce(th, context) ==
    Get(th, "risk_score", 500) * 1000
      * (IF "repeat_offender" \in context THEN 12
         ELSE IF "off_hours" \in context THEN 11
         ELSE IF "privileged_user" \in context THEN 115 \div 10 ELSE 10)

\* the stored score, whatever the context
Unadjusted(th, context) == Get(th, "risk_score", 500) * 10000

\* the product of adjust_risk_by_context, in 1/10000 of a thousandth
Adjusted(th, context) ==
    Get(th, "risk_score", 500)
      * (IF "repeat_offender" \in context THEN 12 ELSE 10)
      * (IF "off_hours" \in context THEN 11 ELSE 10)
      * (IF "privileged_user" \in context THEN 115 ELSE 100)

Adjustments(context) ==
    (IF "repeat_offender" \in context THEN <<"Increased: Repeat offender">> ELSE <<>>)
    \o (IF "off_hours" \in context THEN <<"Increased: Off-hours activity">> ELSE <<>>)
    \o (IF "privileged_user" \in context
        THEN <<"Increased: Privileged user account">> ELSE <<>>)

\* context: the set of signals whose context.get(...) is truthy
adjust_risk_by_context(sc, th, context) ==
    LET risk_score == Clamp01(Adjusted(th, context), 10000000)
    IN  [risk_score |-> Round3(risk_score, 10000000),
         risk_level |-> _classify_risk_level(sc, risk_score, 10000000),
         risk_adjustments |-> Adjustments(context)]
        @@ th

(***************************************************************************)
(* Scorer configurations: the defaults of RiskScorer.__init__, and weights *)
(* and thresholds a configuration file may give instead.                   *)
(***************************************************************************)
DefaultFactors == [data_access |-> 3, system_control |-> 5,
                   network_access |-> 4, privilege_escalation |-> 5]

Weights == { <<40, 30, 20, 10>>, <<0 - 50, 30, 20, 10>>, <<150, 100, 20, 10>>,
             <<0, 0, 0, 0>>, <<40, 0 - 30, 20, 10>> }

Thresholds == { <<300, 600, 850>>, <<300, 300, 850>>, <<600, 300, 850>>,
                <<250, 500, 1000>> }

Scorer(w, t) ==
    [severity_weight |-> w[1], confidence_weight |-> w[2],
     impact_weight |-> w[3], prevalence_weight |-> w[4],
     low_threshold |-> t[1], medium_threshold |-> t[2], high_threshold |-> t[3],
     impact_factors |-> DefaultFactors]

Scorers == {Scorer(w, t) : w \in Weights, t \in Thresholds}

DefaultScorer == Scorer(<<40, 30, 20, 10>>, <<300, 600, 850>>)

Ascending(sc) ==
    sc.low_threshold < sc.medium_threshold /\ sc.medium_threshold < sc.high_threshold

\* Threat candidates: what check_event makes of the rules, two whose
\* confidence a rule author set outside 0..1 and one with confidence 0.766
Candidates ==
    {_create_threat_from_rule(E1, r) : r \in FullRules}
    \cup {[_create_threat_from_rule(E1, R1) EXCEPT !.confidence = 1500],
          [_create_threat_from_rule(E3, R3) EXCEPT !.confidence = 0 - 500],
          [_create_threat_from_rule(E1, R1) EXCEPT !.confidence = 766]}

Signals == {"repeat_offender", "off_hours", "privileged_user"}

\* scores handed to _classify_risk_level, in thousandths
Scores == {0, 250, 299, 300, 301, 500, 599, 600, 849, 850, 851, 1000}

LevelRank(l) ==
    CASE l = "Low" -> 1 [] l = "Medium" -> 2 [] l = "High" -> 3 [] l = "Critical" -> 4

NoProbe == [s1 |-> 0, l1 |-> "none", s2 |-> 0, l2 |-> "none"]

(***************************************************************************)
(* Components a specification does not exercise stay as constructed.       *)
(***************************************************************************)
EngineIdle == rules = <<>> /\ event = E1 /\ result = Pending /\ calls = 0
RiskIdle   == scorer = DefaultScorer /\ threat = Pending /\ probe = NoProbe

(***************************************************************************)
(* The rule engine on one Event: check_event.                              *)
(***************************************************************************)
MaxCalls == 2

\* a check_event that consumes the rule it matched
CheckEventConsuming ==
    /\ calls < MaxCalls
    /\ calls' = calls + 1
    /\ result' = check_event(event, rules)
    /\ rules' = IF result'.kind = "threat"
                THEN SelectSeq(rules, LAMBDA r : r.id # result'.rule_matched)
                ELSE rules
    /\ UNCHANGED event

\* check_event reads self.rules and the event and assigns neither
CheckEvent ==
    /\ calls < MaxCalls
    /\ calls' = calls + 1
    /\ result' = check_event(event, rules)
    /\ UNCHANGED <<rules, event>>

(***************************************************************************)
(* Rule-set mutation: add_rule and remove_rule.  raised names the          *)
(* exception that left the call ("none" when it returned).                 *)
(***************************************************************************)
required_fields == <<"id", "name", "conditions", "severity">>

\* add_rule that puts the new rule in front of the list
add_rule_prepend(rs, rule) ==
    IF \E i \in 1..Len(required_fields) : required_fields[i] \notin DOMAIN rule
    THEN [raised |-> "ValueError", rules |-> rs]
    ELSE IF \E i \in 1..Len(rs) : rs[i].id = rule.id
    THEN [raised |-> "ValueError", rules |-> rs]
    ELSE [raised |-> "none", rules |-> <<rule>> \o rs]

\* add_rule without the duplicate-id check
add_rule_any_id(rs, rule) ==
    IF \E i \in 1..Len(required_fields) : required_fields[i] \notin DOMAIN rule
    THEN [raised |-> "ValueError", rules |-> rs]
    ELSE [raised |-> "none", rules |-> Append(rs, rule)]

add_rule(rs, rule) ==
    IF \E i \in 1..Len(required_fields) : required_fields[i] \notin DOMAIN rule
    THEN [raised |-> "ValueError", rules |-> rs]
    ELSE IF \E i \in 1..Len(rs) : rs[i].id = rule.id
    THEN [raised |-> "ValueError", rules |-> rs]
    ELSE [raised |-> "none", rules |-> Append(rs, rule)]

remove_rule(rs, rule_id) ==
    LET kept == SelectSeq(rs, LAMBDA r : r.id # rule_id)
    IN  [returned |-> Len(kept) < Len(rs), rules |-> kept]

\* rules handed to add_rule: complete ones, the minimal BareRule, one that
\* reuses the id of R1, and one lacking each required field
SameIdAsR1 == [R2 EXCEPT !.id = "R1"]
NoId == [name |-> "R9", severity |-> "low", conditions |-> <<>>]
NoName == [id |-> "R9", severity |-> "low", conditions |-> <<>>]
NoConditions == [id |-> "R9", name |-> "R9", severity |-> "low"]
NoSeverity == [id |-> "R9", name |-> "R9", conditions |-> <<>>]
NewRules == {R1, R2, R3, BareRule, SameIdAsR1, NoId, NoName, NoConditions, NoSeverity}
RuleIds == {"R1", "R2", "R3", "R8", "R9"}

UniqueIds(rs) == \A i, j \in 1..Len(rs) : rs[i].id = rs[j].id => i = j

\* rule lists at the start: pairwise distinct ids
DistinctLists == {rs \in ListsOf({R1, R2, R3, SameIdAsR1}, MaxRules - 1) : UniqueIds(rs)}

AddRule(rule) ==
    /\ Len(rules) < MaxRules
    /\ LET outcome == add_rule(rules, rule)
       IN  /\ rules' = outcome.rules
           /\ result' = [kind |-> "add_rule", rule |-> rule, raised |-> outcome.raised]
    /\ UNCHANGED <<event, calls>>

RemoveRule(rule_id) ==
    /\ LET outcome == remove_rule(rules, rule_id)
       IN  /\ rules' = outcome.rules
           /\ result' = [kind |-> "remove_rule", rule_id |-> rule_id,
                         returned |-> outcome.returned]
    /\ UNCHANGED <<event, calls>>

(***************************************************************************)
(* Construction: RuleEngine(load_rules(path)).  The file is missing, is    *)
(* not JSON, or holds a list of rules.                                     *)
(***************************************************************************)
MaxFileRules == 3

\* load_rules: json.load of the file; an empty rule set when the file is
\* missing or cannot be parsed
load_rules(file) ==
    IF file.k = "json" THEN [rules |-> file.rules] ELSE [rules |-> <<>>]

\* RuleEngine.__init__: self.rules = rules_data.get('rules', [])
RuleEngineInit(rules_data) == Get(rules_data, "rules", <<>>)

RuleFiles ==
    {[k |-> "missing"], [k |-> "garbled"]}
    \cup {[k |-> "json", rules |-> rs] :
            rs \in ListsOf({R1, R2, BareRule, SameIdAsR1, NoSeverity, NoId}, MaxFileRules)}

Construct(file) ==
    /\ result = Pending
    /\ rules' = RuleEngineInit(load_rules(file))
    /\ result' = [kind |-> "constructed", file |-> file, raised |-> "none"]
    /\ UNCHANGED <<event, calls>>

(***************************************************************************)
(* The risk scorer on one Threat.                                          *)
(***************************************************************************)
CalculateRisk ==
    /\ threat # Pending
    /\ "risk_score" \notin DOMAIN threat
    /\ threat' = calculate_risk(scorer, threat)
    /\ UNCHANGED <<scorer, probe>>

AdjustRisk(context) ==
    /\ threat # Pending
    /\ "risk_score" \in DOMAIN threat
    /\ threat' = adjust_risk_by_context(scorer, threat, context)
    /\ UNCHANGED <<scorer, probe>>

Classify(s1, s2) ==
    /\ probe' = [s1 |-> s1, l1 |-> _classify_risk_level(scorer, s1, 1000),
                 s2 |-> s2, l2 |-> _classify_risk_level(scorer, s2, 1000)]
    /\ UNCHANGED <<scorer, threat>>

(***************************************************************************)
(* One scan cycle over the Events the collectors returned.  sunk lists the *)
(* rule_matched of every Threat handed to db.log_threat, in order; raised  *)
(* tells whether an exception left the function.                           *)
(***************************************************************************)
\* dashboard perform_scan: match, score and log one Event after the other
RECURSIVE perform_scan_from(_, _, _, _, _)
perform_scan_from(evs, rs, sc, i, sunk) ==
    IF i > Len(evs) THEN [raised |-> FALSE, sunk |-> sunk]
    ELSE LET th == check_event(evs[i], rs)
         IN  IF th.kind = "raise" THEN [raised |-> TRUE, sunk |-> sunk]
             ELSE IF th.kind = "none" THEN perform_scan_from(evs, rs, sc, i + 1, sunk)
             ELSE perform_scan_from(evs, rs, sc, i + 1,
                     Append(sunk, calculate_risk(sc, th).rule_matched))

perform_scan(evs, rs, sc) == perform_scan_from(evs, rs, sc, 1, <<>>)

\* RuleEngine.check_events: every Event is matched before any Threat is returned
RECURSIVE check_events_from(_, _, _, _)
check_events_from(evs, rs, i, threats) ==
    IF i > Len(evs) THEN [raised |-> FALSE, threats |-> threats]
    ELSE LET th == check_event(evs[i], rs)
         IN  IF th.kind = "raise" THEN [raised |-> TRUE, threats |-> <<>>]
             ELSE IF th.kind = "none" THEN check_events_from(evs, rs, i + 1, threats)
             ELSE check_events_from(evs, rs, i + 1, Append(threats, th))

check_events(evs, rs) == check_events_from(evs, rs, 1, <<>>)

\* CLI scan_once: check_events on the whole list, then score all, then log all
scan_once(evs, rs, sc) ==
    LET found == check_events(evs, rs)
    IN  IF found.raised THEN [raised |-> TRUE, sunk |-> <<>>]
        ELSE [raised |-> FALSE,
              sunk |-> [i \in 1..Len(found.threats) |->
                           calculate_risk(sc, found.threats[i]).rule_matched]]

\* the rule file of the deployment (load_rules checks no field of a rule)
ConfiguredRules == <<R1, R3, BareRule>>
MaxEvents == 3
\* the Events one cycle of perform_scan may collect: suspicious_processes,
\* high_resource_usage and new_processes
ScanEvents == {E1, E2, E3, E9, E10}
ScanInputs == ListsOf(ScanEvents, MaxEvents)
\* scan_once does not collect new_processes
CliEvents == {E1, E2, E3, E9}
CliInputs == ListsOf(CliEvents, MaxEvents)

NoCycle == [by |-> "none", events |-> <<>>, raised |-> FALSE, sunk |-> <<>>]

Cycle(by, evs, outcome) ==
    [by |-> by, events |-> evs, raised |-> outcome.raised, sunk |-> outcome.sunk]

(***************************************************************************)
(* Collectors.  What the operating system shows one scan: procs, the       *)
(* process table (name, cpu_percent and memory_percent are None for a      *)
(* process psutil may not inspect), sockets, the connections of            *)
(* psutil.net_connections, and denied, whether that call raises            *)
(* AccessDenied instead.                                                   *)
(* Lists of processes and connections are in pid order.                    *)
(***************************************************************************)
Proc(pid, name, cpu, mem) ==
    [pid |-> pid, name |-> name, cpu_percent |-> cpu, memory_percent |-> mem]

P1 == Proc(1, Str(MIMx), Num(12), Num(10))
P2 == Proc(2, Str(nix), Num(95), Num(90))
P3 == Proc(3, None, None, None)
\* pid 1 again, now another program
P4 == Proc(1, Str(nix), Num(10), Num(10))

Conn(pid, port) ==
    [pid |-> pid, process_name |-> Str(nix), remote_port |-> port,
     status |-> "ESTABLISHED"]
\* a listening socket, and a connection whose owner psutil does not tell (pid 0)
Listening(pid, port) == [Conn(pid, port) EXCEPT !.status = "LISTEN"]
Unowned(port) == Conn(0, port)
K1 == Conn(2, 4444)
K2 == Conn(2, 80)

\* process tables: no pid twice
ProcTables == {S \in SUBSET {P1, P2, P3, P4} : ~ ({P1, P4} \subseteq S)}
OsStates ==
    {os \in [procs : ProcTables, denied : BOOLEAN, sockets : SUBSET {K1, K2}] :
        os.denied => os.sockets = {}}

\* configuration of the monitors: the defaults of SystemMonitor.__init__ and
\* NetworkMonitor.__init__, but one suspicious name and the value 1 under the
\* key monitoring.network.max_connections_per_process (100 when absent)
suspicious_names == <<mim>>
cpu_threshold == 90
memory_threshold == 85
suspicious_ports == {4444, 5555, 6666, 31337}
max_connections_per_process == 1

RECURSIVE InOrder(_)
InOrder(S) ==
    IF S = {} THEN <<>>
    ELSE LET first == CHOOSE x \in S : \A y \in S : x.pid <= y.pid
         IN  <<first>> \o InOrder(S \ {first})

RECURSIVE Flatten(_)
Flatten(ss) == IF ss = <<>> THEN <<>> ELSE Head(ss) \o Flatten(Tail(ss))

get_running_processes(os) == InOrder(os.procs)

\* raises AccessDenied where psutil.net_connections does
check_system_resources(os) ==
    IF os.denied THEN [raised |-> "AccessDenied"]
    ELSE [raised |-> "none", network_connections |-> Cardinality(os.sockets)]

\* proc['name'].lower() raises AttributeError on a None name
detect_suspicious_processes(os) ==
    LET procs == get_running_processes(os)
        hits(p) == SelectSeq(suspicious_names,
                             LAMBDA n : Contains(lower(n), lower(p.name.s)))
        events(p) == [i \in 1..Len(hits(p)) |->
                        Ev("process_start",
                           [process_name |-> p.name, pid |-> Num(p.pid),
                            cpu_percent |-> p.cpu_percent,
                            memory_percent |-> p.memory_percent])]
    IN  IF \E i \in 1..Len(procs) : procs[i].name = None
        THEN [raised |-> "AttributeError", events |-> <<>>]
        ELSE [raised |-> "none",
              events |-> Flatten([i \in 1..Len(procs) |-> events(procs[i])])]

detect_high_resource_usage(os) ==
    LET procs == get_running_processes(os)
        over(v, threshold) == v # None /\ v.n # 0 /\ v.n > threshold
        cpu(p) == IF over(p.cpu_percent, cpu_threshold)
                  THEN <<Ev("high_cpu", [process_name |-> p.name, pid |-> Num(p.pid),
                                         cpu_percent |-> p.cpu_percent])>>
                  ELSE <<>>
        mem(p) == IF over(p.memory_percent, memory_threshold)
                  THEN <<Ev("high_memory", [process_name |-> p.name, pid |-> Num(p.pid),
                                            memory_percent |-> p.memory_percent])>>
                  ELSE <<>>
    IN  Flatten([i \in 1..Len(procs) |-> cpu(procs[i]) \o mem(procs[i])])

Pairs(os) == {<<p.pid, p.name>> : p \in os.procs}

\* detect_new_processes that reports every pair by which the table and the
\* stored snapshot differ, the vanished ones included
detect_changed_processes(os, previous) ==
    LET changed == (Pairs(os) \ previous) \cup (previous \ Pairs(os))
        procs == InOrder({[pid |-> q[1], name |-> q[2]] : q \in changed})
    IN  [events |-> [i \in 1..Len(procs) |->
                       Ev("process_start",
                          [process_name |-> procs[i].name, pid |-> Num(procs[i].pid)])],
         previous_processes |-> Pairs(os)]

\* detect_new_processes that compares and leaves the stored snapshot alone
detect_new_keeping_snapshot(os, previous) ==
    LET procs == InOrder({p \in os.procs : <<p.pid, p.name>> \notin previous})
    IN  [events |-> [i \in 1..Len(procs) |->
                       Ev("process_start",
                          [process_name |-> procs[i].name, pid |-> Num(procs[i].pid)])],
         previous_processes |-> previous]

\* one process_start Event per (pid, name) pair of the table that the stored
\* snapshot lacks; the snapshot becomes the pairs of the table
detect_new_processes(os, previous) ==
    LET new_processes == Pairs(os) \ previous
        fresh == {p \in os.procs : <<p.pid, p.name>> \in new_processes}
        procs == InOrder(fresh)
    IN  [events |-> [i \in 1..Len(procs) |->
                       Ev("process_start",
                          [process_name |-> procs[i].name, pid |-> Num(procs[i].pid)])],
         previous_processes |-> Pairs(os)]

\* scan_system builds its result dictionary entry by entry: an exception in
\* one entry leaves the call before detect_new_processes has run
scan_system(os, previous) ==
    LET suspicious == detect_suspicious_processes(os)
        new == detect_new_processes(os, previous)
    IN  IF check_system_resources(os).raised # "none"
        THEN [raised |-> check_system_resources(os).raised,
              previous_processes |-> previous]
        ELSE IF suspicious.raised # "none"
        THEN [raised |-> suspicious.raised, previous_processes |-> previous]
        ELSE [raised |-> "none",
              suspicious_processes |-> suspicious.events,
              high_resource_usage |-> detect_high_resource_usage(os),
              new_processes |-> new.events,
              previous_processes |-> new.previous_processes]

RECURSIVE ByPort(_)
ByPort(S) ==
    IF S = {} THEN <<>>
    ELSE LET first == CHOOSE x \in S : \A y \in S : x.remote_port <= y.remote_port
         IN  <<first>> \o ByPort(S \ {first})

\* listening sockets are skipped; AccessDenied (and any other exception) is
\* caught: no connections
get_active_connections(os) ==
    IF os.denied THEN <<>>
    ELSE ByPort({c \in os.sockets : c.status # "LISTEN"})

detect_suspicious_ports(os) ==
    LET conns == SelectSeq(get_active_connections(os),
                           LAMBDA c : c.remote_port \in suspicious_ports)
    IN  [i \in 1..Len(conns) |->
            Ev("network_connection",
               [process_name |-> conns[i].process_name, pid |-> Num(conns[i].pid),
                remote_port |-> Num(conns[i].remote_port)])]

\* the comparison with the ceiling written >=
detect_excessive_at_ceiling(os) ==
    LET conns == get_active_connections(os)
        of(pid) == SelectSeq(conns, LAMBDA c : c.pid = pid)
        pids == {conns[i].pid : i \in 1..Len(conns)} \ {0}
        busy == InOrder({[pid |-> pid] : pid \in {q \in pids :
                            Len(of(q)) >= max_connections_per_process}})
    IN  [i \in 1..Len(busy) |->
            Ev("multiple_connections",
               [process_name |-> of(busy[i].pid)[1].process_name,
                pid |-> Num(busy[i].pid),
                connection_count |-> Num(Len(of(busy[i].pid))),
                sample_connections |->
                    [j \in 1..Min(5, Len(of(busy[i].pid))) |->
                        of(busy[i].pid)[j].remote_port]])]

\* connections are grouped by pid (a connection without pid is in no group);
\* sample_connections are the first 5 endpoints of the group
detect_excessive_connections(os) ==
    LET conns == get_active_connections(os)
        of(pid) == SelectSeq(conns, LAMBDA c : c.pid = pid)
        pids == {conns[i].pid : i \in 1..Len(conns)} \ {0}
        busy == InOrder({[pid |-> pid] : pid \in {q \in pids :
                            Len(of(q)) > max_connections_per_process}})
    IN  [i \in 1..Len(busy) |->
            Ev("multiple_connections",
               [process_name |-> of(busy[i].pid)[1].process_name,
                pid |-> Num(busy[i].pid),
                connection_count |-> Num(Len(of(busy[i].pid))),
                sample_connections |->
                    [j \in 1..Min(5, Len(of(busy[i].pid))) |->
                        of(busy[i].pid)[j].remote_port]])]

\* the Event is built for every private address and appended to nothing
detect_unusual_destinations(os) == <<>>

scan_network(os) ==
    [raised |-> "none",
     suspicious_ports |-> detect_suspicious_ports(os),
     excessive_connections |-> detect_excessive_connections(os),
     unusual_destinations |-> detect_unusual_destinations(os)]

MaxSamples == 2

NoSample == [op |-> "none", n |-> 0]

\* the two threads of the dashboard that reach system_monitor through
\* perform_scan: the monitoring_loop thread and a request thread of start_scan
Callers == {"monitoring_loop", "start_scan"}
NoCall == [pc |-> "idle"]
NoHistory == [observed |-> <<>>, returned |-> <<>>]

MonIdle ==
    /\ previous_processes = {}
    /\ sample = NoSample
    /\ dnp = [t \in Callers |-> NoCall]
    /\ history = NoHistory

DetectNewProcesses(os) ==
    /\ sample.n < MaxSamples
    /\ LET out == detect_new_processes(os, previous_processes)
       IN  /\ previous_processes' = out.previous_processes
           /\ sample' = [op |-> "detect_new_processes", n |-> sample.n + 1,
                         os |-> os, raised |-> "none", new_processes |-> out.events,
                         before |-> previous_processes]
    /\ UNCHANGED <<dnp, history>>

ScanSystem(os) ==
    /\ sample.n < MaxSamples
    /\ LET out == scan_system(os, previous_processes)
       IN  /\ previous_processes' = out.previous_processes
           /\ sample' = [op |-> "scan_system", n |-> sample.n + 1, os |-> os,
                         raised |-> out.raised, system |-> out]
    /\ UNCHANGED <<dnp, history>>

\* connection tables for detect_excessive_connections: up to MaxConns
\* connections of pid 2, two connections and a listening socket of pid 3,
\* one connection without pid
MaxConns == 7
ManyConns ==
    {Conn(2, port) : port \in 1..MaxConns}
    \cup {Conn(3, 1), Conn(3, 2), Listening(3, 3), Unowned(1)}
ConnTables ==
    {[procs |-> {}, denied |-> FALSE, sockets |-> S] : S \in SUBSET ManyConns}

DetectExcessiveConnections(os) ==
    /\ sample = NoSample
    /\ sample' = [op |-> "detect_excessive_connections", n |-> sample.n + 1,
                  os |-> os, raised |-> "none",
                  events |-> detect_excessive_connections(os)]
    /\ UNCHANGED <<previous_processes, dnp, history>>

ScanNetwork(os) ==
    /\ sample.n < MaxSamples
    /\ sample' = [op |-> "scan_network", n |-> sample.n + 1, os |-> os,
                  raised |-> "none", network |-> scan_network(os)]
    /\ UNCHANGED <<previous_processes, dnp, history>>

(***************************************************************************)
(* A whole cycle: both collectors, then the Events they returned go        *)
(* through matching, scoring and the sinks.                                *)
(***************************************************************************)
\* scan_once, lines 117-134
scan_once_events(system_results, network_results) ==
    system_results.suspicious_processes \o system_results.high_resource_usage
    \o network_results.suspicious_ports \o network_results.excessive_connections

\* perform_scan, lines 311-322
perform_scan_events(system_results, network_results) ==
    system_results.suspicious_processes \o system_results.high_resource_usage
    \o system_results.new_processes
    \o network_results.suspicious_ports \o network_results.excessive_connections
    \o network_results.unusual_destinations

Collected(by, system_results, network_results) ==
    IF by = "scan_once" THEN scan_once_events(system_results, network_results)
    ELSE perform_scan_events(system_results, network_results)

Processed(by, evs) ==
    IF by = "scan_once" THEN scan_once(evs, rules, scorer)
    ELSE perform_scan(evs, rules, scorer)

RunCycle(by, os) ==
    /\ sample.n < MaxSamples
    /\ LET system_results == scan_system(os, previous_processes)
           network_results == scan_network(os)
       IN  /\ previous_processes' = system_results.previous_processes
           /\ sample' = [op |-> "cycle", n |-> sample.n + 1, os |-> os,
                         raised |-> system_results.raised,
                         system |-> system_results, network |-> network_results]
           /\ cycle' = IF system_results.raised # "none"
                       THEN [by |-> by, events |-> <<>>, raised |-> TRUE, sunk |-> <<>>]
                       ELSE LET evs == Collected(by, system_results, network_results)
                            IN  Cycle(by, evs, Processed(by, evs))
    /\ UNCHANGED <<dnp, history>>

(***************************************************************************)
(* detect_new_processes run by two threads on the one SystemMonitor of the *)
(* dashboard.  No lock is held: a thread switch can fall between the       *)
(* enumeration of the processes (line 209), the read of                    *)
(* self.previous_processes (line 212) and its assignment (line 228).       *)
(***************************************************************************)
MaxDetect == 3

OverlapTables ==
    {[procs |-> S, denied |-> FALSE, sockets |-> {}] : S \in SUBSET {P1, P2}}

\* line 209: the thread enumerates the running processes
DnpEnumerate(t, os) ==
    /\ dnp[t].pc = "idle"
    /\ Len(history.observed) < MaxDetect
    /\ dnp' = [dnp EXCEPT ![t] = [pc |-> "compare", os |-> os]]
    /\ history' = [history EXCEPT !.observed = Append(@, Pairs(os))]
    /\ UNCHANGED <<previous_processes, sample>>

\* lines 212-226: it reads the snapshot and builds its Events
DnpCompare(t) ==
    /\ dnp[t].pc = "compare"
    /\ dnp' = [dnp EXCEPT ![t] =
                  [pc |-> "store", os |-> @.os,
                   events |-> detect_new_processes(@.os, previous_processes).events]]
    /\ UNCHANGED <<previous_processes, sample, history>>

\* lines 228-230: it replaces the snapshot and returns
DnpStore(t) ==
    /\ dnp[t].pc = "store"
    /\ previous_processes' = Pairs(dnp[t].os)
    /\ history' = [history EXCEPT !.returned = Append(@, dnp[t].events)]
    /\ dnp' = [dnp EXCEPT ![t] = NoCall]
    /\ UNCHANGED sample

(***************************************************************************)
(* Dashboard (app.py): request-handling threads run start_monitoring,      *)
(* stop_monitoring and start_scan; every thread started by                 *)
(* start_monitoring runs monitoring_loop.  One step is one read or write   *)
(* of the global monitoring_active, or one blocking call.                  *)
(***************************************************************************)
MaxWorkers == 2
MaxRequests == 2

WorkerIds == 1..MaxWorkers
ReqIds == 1..MaxRequests

Alive(w) == wpc[w] \notin {"unborn", "done"}
Unborn == {w \in WorkerIds : wpc[w] = "unborn"}
Starting == {r \in ReqIds : rpc[r] \in {"start_if", "start_set", "start_thread"}}

\* get_monitoring_status: the 'active' field of the response
get_monitoring_status == monitoring_active

\* the 'success' field of a response
Success(message) == message \in {"started", "stopped", "scan_complete"}
Failure(message) == message \in {"already_active", "not_active", "scan_error"}

DashIdle ==
    /\ monitoring_active = FALSE
    /\ wpc = [w \in WorkerIds |-> "unborn"]
    /\ rpc = [r \in ReqIds |-> "idle"]
    /\ resp = "none"
    /\ stopped = {}

\* whether perform_scan raises, for every list of Events a cycle may collect
\* (the dashboard's rule_engine and risk_scorer never change after construction)
ScanOutcomes ==
    {perform_scan(evs, ConfiguredRules, DefaultScorer).raised : evs \in ScanInputs}

\* a request arrives: POST /api/monitoring/start, /api/monitoring/stop, /api/scan/start;
\* the server hands it to a free thread (the threads are alike: the first free one)
Request(r, handler) ==
    /\ rpc[r] = "idle"
    /\ \A q \in ReqIds : rpc[q] = "idle" => r <= q
    /\ handler = "start_if" => Cardinality(Starting) < Cardinality(Unborn)
    /\ rpc' = [rpc EXCEPT ![r] = handler]
    /\ UNCHANGED <<monitoring_active, wpc, resp, stopped>>

\* start_monitoring without its check of the flag
StartIfNoCheck(r) ==
    /\ rpc[r] = "start_if"
    /\ rpc' = [rpc EXCEPT ![r] = "start_set"]
    /\ UNCHANGED <<monitoring_active, wpc, resp, stopped>>

\* start_monitoring, line 243: if not monitoring_active
StartIf(r) ==
    /\ rpc[r] = "start_if"
    /\ IF ~ monitoring_active
       THEN /\ rpc' = [rpc EXCEPT ![r] = "start_set"]
            /\ UNCHANGED resp
       ELSE /\ rpc' = [rpc EXCEPT ![r] = "idle"]
            /\ resp' = "already_active"
    /\ UNCHANGED <<monitoring_active, wpc, stopped>>

\* start_monitoring, line 244: monitoring_active = True
StartSet(r) ==
    /\ rpc[r] = "start_set"
    /\ monitoring_active' = TRUE
    /\ stopped' = {}
    /\ rpc' = [rpc EXCEPT ![r] = "start_thread"]
    /\ UNCHANGED <<wpc, resp>>

\* start_monitoring, lines 245-250: the thread is created and started
StartThread(r) ==
    /\ rpc[r] = "start_thread"
    /\ Unborn # {}
    /\ LET w == CHOOSE x \in Unborn : \A y \in Unborn : x <= y
       IN  wpc' = [wpc EXCEPT ![w] = "while"]
    /\ rpc' = [rpc EXCEPT ![r] = "idle"]
    /\ resp' = "started"
    /\ UNCHANGED <<monitoring_active, stopped>>

\* stop_monitoring, line 262: if monitoring_active
StopIf(r) ==
    /\ rpc[r] = "stop_if"
    /\ IF monitoring_active
       THEN /\ rpc' = [rpc EXCEPT ![r] = "stop_set"]
            /\ UNCHANGED resp
       ELSE /\ rpc' = [rpc EXCEPT ![r] = "idle"]
            /\ resp' = "not_active"
    /\ UNCHANGED <<monitoring_active, wpc, stopped>>

\* stop_monitoring, lines 263-267: monitoring_active = False
StopSet(r) ==
    /\ rpc[r] = "stop_set"
    /\ monitoring_active' = FALSE
    /\ stopped' = stopped \cup {w \in WorkerIds : wpc[w] = "sleep"}
    /\ rpc' = [rpc EXCEPT ![r] = "idle"]
    /\ resp' = "stopped"
    /\ UNCHANGED wpc

\* start_scan, lines 213-225: perform_scan returned or raised
ScanReturn(r) ==
    /\ rpc[r] = "scan"
    /\ \E raised \in ScanOutcomes :
          resp' = IF raised THEN "scan_error" ELSE "scan_complete"
    /\ rpc' = [rpc EXCEPT ![r] = "idle"]
    /\ UNCHANGED <<monitoring_active, wpc, stopped>>

\* a loop that does not read the flag again: while True
LoopWhileTrue(w) ==
    /\ wpc[w] = "while"
    /\ wpc' = [wpc EXCEPT ![w] = "scan"]
    /\ UNCHANGED <<monitoring_active, rpc, resp, stopped>>

\* monitoring_loop, line 359: while monitoring_active
LoopWhile(w) ==
    /\ wpc[w] = "while"
    /\ wpc' = [wpc EXCEPT ![w] = IF monitoring_active THEN "scan" ELSE "done"]
    /\ UNCHANGED <<monitoring_active, rpc, resp, stopped>>

\* the loop without its try/except, as in run_continuous: an exception ends the thread
LoopScanUncaught(w) ==
    /\ wpc[w] = "scan"
    /\ \E raised \in ScanOutcomes :
          wpc' = [wpc EXCEPT ![w] = IF raised THEN "done" ELSE "sleep"]
    /\ UNCHANGED <<monitoring_active, rpc, resp, stopped>>

\* monitoring_loop, lines 360-392: perform_scan returns, or an exception is caught
LoopScan(w) ==
    /\ wpc[w] = "scan"
    /\ \E raised \in ScanOutcomes :
          wpc' = [wpc EXCEPT ![w] = IF raised THEN "backoff" ELSE "sleep"]
    /\ UNCHANGED <<monitoring_active, rpc, resp, stopped>>

\* monitoring_loop, lines 388 and 392: time.sleep returns
LoopSleep(w) ==
    /\ wpc[w] \in {"sleep", "backoff"}
    /\ wpc' = [wpc EXCEPT ![w] = "while"]
    /\ UNCHANGED <<monitoring_active, rpc, resp, stopped>>

WorkerStep(w) == LoopWhile(w) \/ LoopScan(w) \/ LoopSleep(w)

(***************************************************************************)
(* CLI (main.py): ThreatAdvisor.run_continuous on the main thread.         *)
(***************************************************************************)
MaxScans == 3

CliIdle == running = FALSE /\ cpc = "init" /\ scan_count = 0

\* run_continuous, lines 202-208: self.running = True
RunContinuous ==
    /\ cpc = "init"
    /\ running' = TRUE
    /\ cpc' = "while"
    /\ UNCHANGED <<scan_count, cycle>>

\* run_continuous, line 211: while self.running
CliWhile ==
    /\ cpc = "while"
    /\ cpc' = IF running THEN "scan" ELSE "returned"
    /\ UNCHANGED <<running, scan_count, cycle>>

\* run_continuous, line 212: self.scan_once(); only KeyboardInterrupt is
\* caught around the loop (line 215), any other exception leaves run_continuous
CliScan ==
    /\ cpc = "scan"
    /\ scan_count < MaxScans
    /\ scan_count' = scan_count + 1
    /\ \E evs \in CliInputs :
          LET outcome == scan_once(evs, rules, scorer)
          IN  /\ cycle' = Cycle("scan_once", evs, outcome)
              /\ cpc' = IF outcome.raised THEN "crashed" ELSE "sleep"
    /\ UNCHANGED running

\* run_continuous, line 213: time.sleep(interval) returns
CliSleep ==
    /\ cpc = "sleep"
    /\ cpc' = "while"
    /\ UNCHANGED <<running, scan_count, cycle>>

\* run_continuous, lines 215-217: Ctrl+C inside the try block
KeyboardInterrupt ==
    /\ cpc \in {"while", "scan", "sleep"}
    /\ running' = FALSE
    /\ cpc' = "returned"
    /\ UNCHANGED <<scan_count, cycle>>

\* Ctrl+C while scan_once is underway (nothing sets self.running to False
\* but the handler of lines 215-217): KeyboardInterrupt is raised inside
\* scan_once, here in its loop over the threats, after `logged` of them
InterruptScan ==
    /\ cpc = "scan"
    /\ scan_count < MaxScans
    /\ scan_count' = scan_count + 1
    /\ \E evs \in CliInputs :
          LET outcome == scan_once(evs, rules, scorer)
          IN  /\ ~ outcome.raised
              /\ \E logged \in 0..(Len(outcome.sunk) - 1) :
                    cycle' = [by |-> "scan_once", events |-> evs, raised |-> TRUE,
                              sunk |-> SubSeq(outcome.sunk, 1, logged)]
    /\ running' = FALSE
    /\ cpc' = "returned"

(***************************************************************************)
(* One single-shot cycle: the dashboard's start_scan -> perform_scan, and  *)
(* the CLI's --scan -> scan_once.                                          *)
(***************************************************************************)
PerformScan(evs) ==
    /\ cycle = NoCycle
    /\ cycle' = Cycle("perform_scan", evs, perform_scan(evs, rules, scorer))

ScanOnce(evs) ==
    /\ cycle = NoCycle
    /\ cycle' = Cycle("scan_once", evs, scan_once(evs, rules, scorer))

(***************************************************************************)
(* Specifications.                                                         *)
(***************************************************************************)
Deployed == rules = ConfiguredRules /\ event = E1 /\ result = Pending /\ calls = 0

\* RuleEngine.check_event on every Event and rule list
InitMatch ==
    /\ rules \in ListsOf(FullRules, MaxRules)
    /\ event \in WellTypedEvents
    /\ result = Pending
    /\ calls = 0
    /\ RiskIdle /\ DashIdle /\ CliIdle /\ MonIdle /\ cycle = NoCycle

NextMatch == CheckEvent /\ UNCHANGED <<riskVars, dashVars, cliVars, monVars, cycle>>

SpecMatch == InitMatch /\ [][NextMatch]_vars

\* construction of the RuleEngine from a rule file
InitLoad == EngineIdle /\ RiskIdle /\ DashIdle /\ CliIdle /\ MonIdle /\ cycle = NoCycle

NextLoad ==
    /\ \E file \in RuleFiles : Construct(file)
    /\ UNCHANGED <<riskVars, dashVars, cliVars, monVars, cycle>>

SpecLoad == InitLoad /\ [][NextLoad]_vars

\* the collectors called one after the other on one SystemMonitor
InitMon == Deployed /\ RiskIdle /\ DashIdle /\ CliIdle /\ MonIdle /\ cycle = NoCycle

NextMon ==
    /\ \/ \E os \in OsStates : DetectNewProcesses(os)
       \/ \E os \in OsStates : ScanSystem(os)
       \/ \E os \in OsStates : ScanNetwork(os)
    /\ UNCHANGED <<engineVars, riskVars, dashVars, cliVars, cycle>>

SpecMon == InitMon /\ [][NextMon]_vars

\* NetworkMonitor.detect_excessive_connections on every connection table
InitExcess == Deployed /\ RiskIdle /\ DashIdle /\ CliIdle /\ MonIdle /\ cycle = NoCycle

NextExcess ==
    /\ \E os \in ConnTables : DetectExcessiveConnections(os)
    /\ UNCHANGED <<engineVars, riskVars, dashVars, cliVars, cycle>>

SpecExcess == InitExcess /\ [][NextExcess]_vars

\* detect_new_processes called by the monitoring thread and a request thread
InitOverlap == Deployed /\ RiskIdle /\ DashIdle /\ CliIdle /\ MonIdle /\ cycle = NoCycle

NextOverlap ==
    /\ \/ \E t \in Callers : \E os \in OverlapTables : DnpEnumerate(t, os)
       \/ \E t \in Callers : DnpCompare(t)
       \/ \E t \in Callers : DnpStore(t)
    /\ UNCHANGED <<engineVars, riskVars, dashVars, cliVars, cycle>>

SpecOverlap == InitOverlap /\ [][NextOverlap]_vars

\* whole scan cycles of the CLI and of the dashboard
InitCycle == Deployed /\ RiskIdle /\ DashIdle /\ CliIdle /\ MonIdle /\ cycle = NoCycle

NextCycle ==
    /\ \/ \E os \in OsStates : RunCycle("scan_once", os)
       \/ \E os \in OsStates : RunCycle("perform_scan", os)
    /\ UNCHANGED <<engineVars, riskVars, dashVars, cliVars>>

SpecCycle == InitCycle /\ [][NextCycle]_vars

\* RuleEngine.add_rule and remove_rule in any order
InitRules ==
    /\ rules \in DistinctLists
    /\ event = E1 /\ result = Pending /\ calls = 0
    /\ RiskIdle /\ DashIdle /\ CliIdle /\ MonIdle /\ cycle = NoCycle

NextRules ==
    /\ \/ \E rule \in NewRules : AddRule(rule)
       \/ \E rule_id \in RuleIds : RemoveRule(rule_id)
    /\ UNCHANGED <<riskVars, dashVars, cliVars, monVars, cycle>>

SpecRules == InitRules /\ [][NextRules]_vars

\* add_rule followed by check_event on the extended rule list
InitAddCheck ==
    /\ rules \in DistinctLists
    /\ event \in WellTypedEvents
    /\ result = Pending /\ calls = 0
    /\ RiskIdle /\ DashIdle /\ CliIdle /\ MonIdle /\ cycle = NoCycle

NextAddCheck ==
    /\ \/ \E rule \in NewRules : AddRule(rule)
       \/ CheckEvent
    /\ UNCHANGED <<riskVars, dashVars, cliVars, monVars, cycle>>

SpecAddCheck == InitAddCheck /\ [][NextAddCheck]_vars

\* RiskScorer.calculate_risk and adjust_risk_by_context on one Threat
InitRisk ==
    /\ scorer \in Scorers
    /\ threat \in Candidates
    /\ probe = NoProbe
    /\ EngineIdle /\ DashIdle /\ CliIdle /\ MonIdle /\ cycle = NoCycle

NextRisk ==
    /\ \/ CalculateRisk
       \/ \E context \in SUBSET Signals : AdjustRisk(context)
    /\ UNCHANGED <<engineVars, dashVars, cliVars, monVars, cycle>>

SpecRisk == InitRisk /\ [][NextRisk]_vars

\* RiskScorer._classify_risk_level
InitClassify ==
    /\ scorer \in Scorers
    /\ threat = Pending
    /\ probe = NoProbe
    /\ EngineIdle /\ DashIdle /\ CliIdle /\ MonIdle /\ cycle = NoCycle

NextClassify ==
    /\ \E s1, s2 \in Scores : Classify(s1, s2)
    /\ UNCHANGED <<engineVars, dashVars, cliVars, monVars, cycle>>

SpecClassify == InitClassify /\ [][NextClassify]_vars

\* the dashboard's monitoring control
InitDash == Deployed /\ RiskIdle /\ DashIdle /\ CliIdle /\ MonIdle /\ cycle = NoCycle

NextDash ==
    /\ \/ \E r \in ReqIds : \E h \in {"start_if", "stop_if", "scan"} : Request(r, h)
       \/ \E r \in ReqIds : StartIf(r)
       \/ \E r \in ReqIds : StartSet(r)
       \/ \E r \in ReqIds : StartThread(r)
       \/ \E r \in ReqIds : StopIf(r)
       \/ \E r \in ReqIds : StopSet(r)
       \/ \E r \in ReqIds : ScanReturn(r)
       \/ \E w \in WorkerIds : LoopWhile(w)
       \/ \E w \in WorkerIds : LoopScan(w)
       \/ \E w \in WorkerIds : LoopSleep(w)
    /\ UNCHANGED <<engineVars, riskVars, cliVars, monVars, cycle>>

SpecDash == InitDash /\ [][NextDash]_vars

\* every live thread is scheduled again
FairDash ==
    /\ SpecDash
    /\ \A w \in WorkerIds : WF_dashVars(WorkerStep(w))

\* the CLI's continuous loop
InitCli == Deployed /\ RiskIdle /\ DashIdle /\ CliIdle /\ MonIdle /\ cycle = NoCycle

NextCli ==
    /\ \/ RunContinuous
       \/ CliWhile
       \/ CliScan
       \/ CliSleep
       \/ KeyboardInterrupt
       \/ InterruptScan
    /\ UNCHANGED <<engineVars, riskVars, dashVars, monVars>>

SpecCli == InitCli /\ [][NextCli]_vars

\* one single-shot scan cycle
InitScan == Deployed /\ RiskIdle /\ DashIdle /\ CliIdle /\ MonIdle /\ cycle = NoCycle

NextScan ==
    /\ \/ \E evs \in ScanInputs : PerformScan(evs)
       \/ \E evs \in CliInputs : ScanOnce(evs)
    /\ UNCHANGED <<engineVars, riskVars, dashVars, cliVars, monVars>>

SpecScan == InitScan /\ [][NextScan]_vars

(***************************************************************************)
(* Claims.                                                                 *)
(***************************************************************************)
Matching(ev, rs) == {i \in 1..Len(rs) : _match_rule(ev, rs[i]) = "T"}
Least(S) == CHOOSE x \in S : \A y \in S : x <= y

\* C1: check_event returns the Threat of the earliest rule of the list whose
\* conditions the Event satisfies, also when later rules match as well, and
\* returns None exactly when no rule matches (Events with payload values of
\* the clause's type, rules with every field of the data model).
C1_FirstMatchWins ==
    result # Pending =>
        IF Matching(event, rules) = {}
        THEN result.kind = "none"
        ELSE /\ result.kind = "threat"
             /\ result.rule_matched = rules[Least(Matching(event, rules))].id

C1_Witness ==
    /\ result.kind = "threat"
    /\ Cardinality(Matching(event, rules)) >= 2
    /\ result.rule_matched = rules[Least(Matching(event, rules))].id
    /\ Least(Matching(event, rules)) > 1

\* C2: the stored risk_score is within [0, 1] after calculate_risk and after
\* every adjust_risk_by_context, whatever the weights and the confidence.
C2_ScoreInUnitInterval ==
    "risk_score" \in DOMAIN threat =>
        0 <= threat.risk_score /\ threat.risk_score <= 1000

C2_Witness ==
    /\ "risk_adjustments" \in DOMAIN threat
    /\ threat.risk_adjustments # <<>>
    /\ threat.confidence = 1500
    /\ scorer.severity_weight = 150
    /\ threat.risk_score = 1000

Monotonic ==
    probe.s1 <= probe.s2 => LevelRank(probe.l1) <= LevelRank(probe.l2)

OnThreshold ==
    /\ probe.s1 = scorer.low_threshold => probe.l1 = "Medium"
    /\ probe.s1 = scorer.medium_threshold => probe.l1 = "High"
    /\ probe.s1 = scorer.high_threshold => probe.l1 = "Critical"

\* C3 as stated: for any thresholds the classification is monotonic and a
\* score equal to the low, medium or high threshold is Medium, High or
\* Critical.
C3_AnyThresholds == probe # NoProbe => Monotonic /\ OnThreshold

\* C3 as amended: the classification is monotonic for any thresholds; for
\* strictly ascending thresholds a score equal to the low, medium or high
\* threshold is Medium, High or Critical.
C3_AscendingThresholds ==
    probe # NoProbe => Monotonic /\ (Ascending(scorer) => OnThreshold)

C3_Witness ==
    /\ Ascending(scorer)
    /\ probe.s1 = scorer.medium_threshold /\ probe.l1 = "High"
    /\ probe.s2 = scorer.high_threshold /\ probe.l2 = "Critical"

AliveWorkers == {w \in WorkerIds : Alive(w)}

C4_Step ==
    /\ monitoring_active' # monitoring_active =>
          \/ /\ ~ monitoring_active
             /\ \E r \in ReqIds : rpc[r] = "start_set" /\ rpc'[r] = "start_thread"
          \/ /\ monitoring_active
             /\ \E r \in ReqIds : rpc[r] = "stop_set" /\ rpc'[r] = "idle"
             /\ Success(resp')
    /\ \A r \in ReqIds :
          /\ (rpc[r] = "start_if" /\ rpc'[r] # "start_if") =>
                IF monitoring_active
                THEN /\ Failure(resp') /\ rpc'[r] = "idle"
                     /\ UNCHANGED <<monitoring_active, wpc>>
                ELSE rpc'[r] = "start_set"
          /\ (rpc[r] = "start_set" /\ rpc'[r] # "start_set") =>
                monitoring_active' /\ rpc'[r] = "start_thread"
          /\ (rpc[r] = "start_thread" /\ rpc'[r] # "start_thread") =>
                /\ Success(resp') /\ rpc'[r] = "idle"
                /\ \E w \in WorkerIds :
                      /\ wpc[w] = "unborn" /\ wpc'[w] = "while"
                      /\ \A x \in WorkerIds \ {w} : wpc'[x] = wpc[x]
          /\ (rpc[r] = "stop_if" /\ rpc'[r] # "stop_if") =>
                IF monitoring_active
                THEN rpc'[r] = "stop_set"
                ELSE /\ Failure(resp') /\ rpc'[r] = "idle"
                     /\ UNCHANGED <<monitoring_active, wpc>>
          /\ (rpc[r] = "stop_set" /\ rpc'[r] # "stop_set") =>
                /\ ~ monitoring_active' /\ Success(resp') /\ rpc'[r] = "idle"
                /\ UNCHANGED wpc

\* C4: the flag changes only Idle->Running by a start request that found it
\* Idle (it answers success and starts a worker) and Running->Idle by a stop
\* request that found it Running (it answers success); a start that finds it
\* Running and a stop that finds it Idle answer failure and change neither
\* the flag nor the workers.
C4_StartStopMachine == [][C4_Step]_vars

C4_Witness ==
    /\ resp = "already_active"
    /\ monitoring_active
    /\ Cardinality(AliveWorkers) = 1
    /\ \A r \in ReqIds : rpc[r] = "idle"

\* C5: at most one monitoring_loop worker is alive at any time.
C5_OneWorker == Cardinality(AliveWorkers) <= 1

C6_Step ==
    \A w \in WorkerIds :
        /\ (wpc[w] = "scan" /\ wpc'[w] # "scan") =>
              /\ wpc'[w] \in {"sleep", "backoff"}
              /\ monitoring_active' = monitoring_active
        /\ (wpc[w] = "backoff" /\ wpc'[w] # "backoff") => wpc'[w] = "while"
        /\ (wpc[w] # "done" /\ wpc'[w] = "done") =>
              wpc[w] = "while" /\ ~ monitoring_active

\* C6: a cycle of monitoring_loop that raises leaves the worker alive in its
\* backoff with the flag as it was, the backoff leads to the next test of the
\* flag, and a worker ends only at a test that finds the flag Idle.
C6_ExceptionAbsorbed == [][C6_Step]_vars

C6_Witness ==
    \E w \in WorkerIds : wpc[w] = "backoff" /\ monitoring_active

\* C7: an exception raised by scan_once never leaves run_continuous.
C7_NeverPropagates == cpc # "crashed"

\* C8: every Event of a cycle whose own matching gives a Threat has that
\* Threat handed to the sinks, whatever the other Events of the cycle do.
C8_PerEventIsolation ==
    \A i \in 1..Len(cycle.events) :
        LET th == check_event(cycle.events[i], rules)
        IN  th.kind = "threat" =>
                \E j \in 1..Len(cycle.sunk) : cycle.sunk[j] = th.rule_matched

C9_NoFurtherCycle ==
    \A w \in stopped :
        /\ wpc[w] \in {"sleep", "while", "done"}
        /\ get_monitoring_status = FALSE

\* C9: a worker asleep when a stop request succeeds starts no further cycle
\* and terminates, and the status is not-running, as long as no start request
\* sets the flag again.
C9_CooperativeStop ==
    /\ []C9_NoFurtherCycle
    /\ \A w \in WorkerIds : (w \in stopped) ~> (wpc[w] = "done" \/ w \notin stopped)

C9_Witness ==
    \E w \in stopped : wpc[w] = "done" /\ resp = "stopped"

\* C10: a request thread and a monitoring_loop worker are never inside
\* perform_scan at the same time.
C10_ScansExclusive ==
    ~ (\E r \in ReqIds : \E w \in WorkerIds : rpc[r] = "scan" /\ wpc[w] = "scan")

\* C11: on every Threat returned by calculate_risk the stored risk_level is
\* the threshold classification of the stored (clamped and rounded)
\* risk_score.
C11_LevelOfStoredScore ==
    ("risk_score" \in DOMAIN threat /\ "risk_adjustments" \notin DOMAIN threat) =>
        threat.risk_level = _classify_risk_level(scorer, threat.risk_score, 1000)

Malformed(rule) == \E f \in {"id", "name", "conditions", "severity"} : f \notin DOMAIN rule

C13_Step ==
    (result'.kind = "add_rule" /\ <<rules, result>>' # <<rules, result>>) =>
        LET rule == result'.rule
        IN  IF Malformed(rule) \/ \E i \in 1..Len(rules) : rules[i].id = rule.id
            THEN result'.raised # "none" /\ rules' = rules
            ELSE /\ result'.raised = "none"
                 /\ Len(rules') = Len(rules) + 1
                 /\ rules'[Len(rules')] = rule
                 /\ \A i \in 1..Len(rules) : rules'[i] = rules[i]

\* C13: add_rule of a rule lacking id, name, conditions or severity, or whose
\* id a rule of the list has, fails and leaves the list as it was; any other
\* rule is appended at the end and the rules before it stay as they were.
C13_AddRule == [][C13_Step]_vars

C13_Witness ==
    /\ result.kind = "add_rule" /\ result.rule = SameIdAsR1
    /\ result.raised = "ValueError"
    /\ Len(rules) = 2 /\ rules[2] = R1 /\ rules[1] = BareRule

C14_Step ==
    (result'.kind = "remove_rule" /\ <<rules, result>>' # <<rules, result>>) =>
        LET present == \E i \in 1..Len(rules) : rules[i].id = result'.rule_id
        IN  /\ result'.returned = present
            /\ rules' = SelectSeq(rules, LAMBDA r : r.id # result'.rule_id)
            /\ ~ present => rules' = rules
            /\ present => Len(rules') = Len(rules) - 1

\* C14: from a list with pairwise distinct ids, no sequence of add_rule and
\* remove_rule calls leaves two rules with one id; remove_rule of an absent
\* id returns false and leaves the list as it was, remove_rule of a present
\* id returns true and removes exactly that rule.
C14_UniqueIds == [] UniqueIds(rules) /\ [][C14_Step]_vars

C14_Witness ==
    /\ result.kind = "remove_rule" /\ result.returned
    /\ result.rule_id = "R1" /\ Len(rules) = 2
    /\ rules[1] = R2 /\ rules[2] = BareRule

\* C15: after construction the active rule list holds no rule lacking a
\* required field and no two rules with one id.
C15_LoadRejectsMalformed ==
    result.kind = "constructed" =>
        /\ \A i \in 1..Len(rules) : ~ Malformed(rules[i])
        /\ UniqueIds(rules)

\* x/den clamped to [0, 1] and v thousandths differ by at most half a thousandth
Nearest(v, x, den) ==
    LET c == IF x < 0 THEN 0 ELSE IF x > den THEN den ELSE x
        d == v * (den \div 1000) - c
    IN  2 * d <= den \div 1000 /\ 2 * (0 - d) <= den \div 1000

Scored == "risk_score" \in DOMAIN threat /\ "risk_adjustments" \notin DOMAIN threat

\* C16: calculate_risk stores clamp01(w_s*S + w_c*C + w_i*I + w_p*P) rounded
\* to 3 decimals, with S 0.5 for an unknown severity, C the confidence as
\* given, I = min(factor/5, 1) with factor 3 for an unknown impact, P 0.5 for
\* an unknown category; the default scorer gives 0.89, Critical, for S=0.85,
\* C=0.9, I=1.0, P=0.8.
C16_Formula ==
    Scored =>
        LET c == threat.risk_components
        IN  /\ Nearest(threat.risk_score,
                       scorer.severity_weight * c.severity_score
                       + scorer.confidence_weight * c.confidence_score
                       + scorer.impact_weight * c.impact_score
                       + scorer.prevalence_weight * c.prevalence_score, 100000)
            /\ c.confidence_score = threat.confidence
            /\ threat.severity = "odd" => c.severity_score = 500
            /\ threat.severity \in {"high", "High"} => c.severity_score = 850
            /\ threat.impact \in {"unlisted", "unknown"} => c.impact_score = 600
            /\ threat.impact = "system_control" => c.impact_score = 1000
            /\ threat.impact = "network_access" => c.impact_score = 800
            /\ threat.category = "Unlisted" => c.prevalence_score = 500
            /\ threat.category = "Malware" => c.prevalence_score = 800
            /\ threat.risk_level \in {"Low", "Medium", "High", "Critical"}
            /\ (scorer = DefaultScorer /\ c.severity_score = 850
                  /\ c.confidence_score = 900 /\ c.impact_score = 1000
                  /\ c.prevalence_score = 800)
                 => threat.risk_score = 890 /\ threat.risk_level = "Critical"

C16_Witness ==
    /\ Scored /\ scorer = DefaultScorer
    /\ threat.severity = "high" /\ threat.confidence = 900
    /\ threat.impact = "system_control" /\ threat.category = "Malware"
    /\ threat.risk_score = 890 /\ threat.risk_level = "Critical"

AllEntries == <<"Increased: Repeat offender", "Increased: Off-hours activity",
               "Increased: Privileged user account">>

C17_Step ==
    ("risk_score" \in DOMAIN threat /\ threat' # threat) =>
        LET log == threat'.risk_adjustments
            has(e) == \E i \in 1..Len(log) : log[i] = e
            product == threat.risk_score
                         * (IF has(AllEntries[1]) THEN 120 ELSE 100)
                         * (IF has(AllEntries[2]) THEN 110 ELSE 100)
                         * (IF has(AllEntries[3]) THEN 115 ELSE 100)
            den == 1000000000
            clamped == IF product > den THEN den ELSE product
        IN  /\ log = SelectSeq(AllEntries, has)
            /\ Nearest(threat'.risk_score, product, den)
            /\ threat'.risk_level =
                  (IF clamped < scorer.low_threshold * 1000000 THEN "Low"
                   ELSE IF clamped < scorer.medium_threshold * 1000000 THEN "Medium"
                   ELSE IF clamped < scorer.high_threshold * 1000000 THEN "High"
                   ELSE "Critical")
            /\ DOMAIN threat' = DOMAIN threat \cup {"risk_adjustments"}
            /\ \A k \in DOMAIN threat \ {"risk_score", "risk_level", "risk_adjustments"} :
                  threat'[k] = threat[k]

\* C17: adjust_risk_by_context multiplies the current risk_score by 1.2,
\* 1.1 and 1.15 for repeat_offender, off_hours and privileged_user, clamps
\* the product, stores it rounded, sets risk_level to the classification of
\* the clamped product, logs one entry per signal present in that order and
\* leaves every other field of the Threat as it was.
C17_Adjust == [][C17_Step]_vars

C17_Witness ==
    /\ "risk_adjustments" \in DOMAIN threat
    /\ threat.risk_adjustments = AllEntries
    /\ threat.risk_score \notin {0, 1000}
    /\ scorer = DefaultScorer

\* C18: of two consecutive detect_new_processes calls that see the same
\* (pid, name) pairs the second returns no Event and leaves the snapshot
\* equal to those pairs.
C18_SameSetNoEvents ==
    [][(/\ sample.op = "detect_new_processes"
        /\ sample'.op = "detect_new_processes"
        /\ sample'.n = sample.n + 1
        /\ Pairs(sample'.os) = Pairs(sample.os))
       => (sample'.new_processes = <<>>
           /\ previous_processes' = Pairs(sample'.os))]_vars

C18_Witness ==
    /\ sample.op = "detect_new_processes" /\ sample.n = 2
    /\ sample.new_processes = <<>>
    /\ Cardinality(previous_processes) = 3
    /\ previous_processes = Pairs(sample.os)

\* C19: scan_system and scan_network return normally when the OS denies
\* the enumeration of sockets, scan_network with empty Event lists.
C19_AccessDeniedAbsorbed ==
    (sample.op \in {"scan_system", "scan_network"} /\ sample.os.denied) =>
        /\ sample.raised = "none"
        /\ sample.op = "scan_network" =>
              /\ sample.network.suspicious_ports = <<>>
              /\ sample.network.excessive_connections = <<>>

\* C20: the Events matched in a cycle are the name-matched, the
\* threshold-exceeding and the new-process Events of the system collector,
\* then the suspicious-port and the excessive-connection Events of the
\* network collector, in that order; a cycle with no Event hands no Threat
\* to a sink.
C20_AllEventsInOrder ==
    (sample.op = "cycle" /\ sample.raised = "none") =>
        /\ cycle.events =
              sample.system.suspicious_processes \o sample.system.high_resource_usage
              \o sample.system.new_processes
              \o sample.network.suspicious_ports
              \o sample.network.excessive_connections
        /\ cycle.events = <<>> => cycle.sunk = <<>>

\* C21: detect_excessive_connections emits exactly one multiple_connections
\* Event for every pid with more connections (not listening) than the
\* ceiling and none for any other pid; connection_count is that number of
\* connections and the Event has at most 5 sample endpoints.
C21_ExcessiveConnections ==
    sample.op = "detect_excessive_connections" =>
        LET active == {c \in sample.os.sockets : c.status # "LISTEN"}
            count(pid) == Cardinality({c \in active : c.pid = pid})
            evs == sample.events
            about(pid) == {i \in 1..Len(evs) : evs[i].data.pid = Num(pid)}
        IN  /\ \A pid \in {2, 3} :
                  IF count(pid) > max_connections_per_process
                  THEN /\ Cardinality(about(pid)) = 1
                       /\ \A i \in about(pid) :
                             /\ evs[i].event_type = "multiple_connections"
                             /\ evs[i].data.connection_count = Num(count(pid))
                             /\ Len(evs[i].data.sample_connections) <= 5
                  ELSE about(pid) = {}
            /\ \A i \in 1..Len(evs) : \E pid \in {2, 3} : i \in about(pid)

C21_Witness ==
    /\ sample.op = "detect_excessive_connections"
    /\ Len(sample.events) = 1
    /\ sample.events[1].data.connection_count = Num(MaxConns)
    /\ Len(sample.events[1].data.sample_connections) = 5
    /\ Conn(3, 1) \in sample.os.sockets /\ Listening(3, 3) \in sample.os.sockets
    /\ Conn(3, 2) \notin sample.os.sockets

\* C22: a cycle of run_continuous that has begun ends as a whole cycle, all
\* its Events matched and all its Threats logged, and the loop goes on to
\* its sleep (or the cycle's own exception leaves it): a stop request does
\* not end it early.
C22_CycleRunsToCompletion ==
    [][(cpc = "scan" /\ scan_count' = scan_count + 1) =>
          /\ cpc' \in {"sleep", "crashed"}
          /\ cycle' = Cycle("scan_once", cycle'.events,
                            scan_once(cycle'.events, rules, scorer))]_vars

\* the rule with all its clauses but the one under key removed
OneClause(rule, key) ==
    [rule EXCEPT !.conditions = [k \in {key} |-> rule.conditions[key]]]

\* the position of each clause's test in _match_rule
ClauseOrder ==
    [event_type |-> 1, process_name_contains |-> 2, port_in |-> 3,
     cpu_percent |-> 4, path_contains |-> 5, extension_in |-> 6,
     connection_count |-> 7, count |-> 8]

\* the clause under key, tested on its own, passes
Holds(ev, rule, key) == ClauseOutcomes(ev, OneClause(rule, key))[ClauseOrder[key]] = "T"

\* C23: an Event matches a Rule if and only if it satisfies every clause
\* present in the Rule's conditions; a Rule with no clause matches every
\* Event.
C23_Conjunction ==
    result # Pending =>
        /\ \A i \in 1..Len(rules) :
              (_match_rule(event, rules[i]) = "T")
                <=> \A key \in DOMAIN rules[i].conditions : Holds(event, rules[i], key)
        /\ result.kind = "threat"
              <=> \E i \in 1..Len(rules) :
                      \A key \in DOMAIN rules[i].conditions : Holds(event, rules[i], key)
        /\ (\E i \in 1..Len(rules) : rules[i].conditions = <<>>) => result.kind = "threat"

C23_Witness ==
    /\ result.kind = "threat" /\ result.rule_matched = "R7"
    /\ Len(rules) = 2 /\ rules[1] = R1 /\ rules[2] = R7
    /\ event = E2

\* text has a non-empty value under field that contains, letter case apart,
\* one of the substrings
HasSubstring(data, field, substrings) ==
    /\ field \in DOMAIN data
    /\ data[field].k = "str"
    /\ data[field].s # <<>>
    /\ \E p \in substrings :
          \E at \in 0..(Len(data[field].s) - Len(p)) :
              \A j \in 1..Len(p) : LowerChar(p[j]) = LowerChar(data[field].s[at + j])

\* C24: process_name_contains (path_contains) holds if and only if the
\* payload has a non-empty process name (file path) containing, case apart,
\* one of the listed substrings; without the field the clause never holds.
C24_Substring ==
    result # Pending =>
        \A i \in 1..Len(rules) :
            LET conditions == rules[i].conditions
            IN  /\ "process_name_contains" \in DOMAIN conditions =>
                      (Holds(event, rules[i], "process_name_contains")
                         <=> HasSubstring(event.data, "process_name",
                                          conditions["process_name_contains"]))
                /\ "path_contains" \in DOMAIN conditions =>
                      (Holds(event, rules[i], "path_contains")
                         <=> HasSubstring(event.data, "file_path",
                                          conditions["path_contains"]))
                /\ (result.kind = "threat" /\ result.rule_matched = rules[i].id
                     /\ "process_name_contains" \in DOMAIN conditions)
                      => HasSubstring(event.data, "process_name",
                                      conditions["process_name_contains"])

C24_Witness ==
    /\ result.kind = "threat" /\ result.rule_matched = "R1"
    /\ event = E1
    /\ Len(rules) = 2 /\ rules[1] = R5 /\ rules[2] = R1

NumericClauses == {"cpu_percent", "connection_count", "count"}

\* C25 as stated: a numeric clause with a positive threshold holds exactly
\* when the payload carries the field with a value >= the threshold.
C25_MissingNeverSatisfies ==
    result # Pending =>
        \A i \in 1..Len(rules) :
            \A key \in NumericClauses \cap DOMAIN rules[i].conditions :
                rules[i].conditions[key] > 0 =>
                    (Holds(event, rules[i], key)
                       <=> (key \in DOMAIN event.data
                            /\ event.data[key].n >= rules[i].conditions[key]))

\* C25 as amended: a numeric clause holds exactly when the payload's value
\* is >= the threshold, a missing cpu_percent or connection_count counting
\* as 0 and a missing count as 1.
C25_MissingReadAsDefault ==
    result # Pending =>
        \A i \in 1..Len(rules) :
            \A key \in NumericClauses \cap DOMAIN rules[i].conditions :
                LET value == IF key \in DOMAIN event.data THEN event.data[key].n
                             ELSE IF key = "count" THEN 1 ELSE 0
                IN  Holds(event, rules[i], key) <=> value >= rules[i].conditions[key]

C25_Witness ==
    /\ result.kind = "threat" /\ result.rule_matched = "R11"
    /\ "count" \notin DOMAIN event.data
    /\ Len(rules) = 2 /\ rules[1] = R3 /\ rules[2] = R11
    /\ "cpu_percent" \notin DOMAIN event.data

\* the signals whose entries the last adjustment logged
Logged(th) ==
    {s \in Signals :
        \E i \in 1..Len(th.risk_adjustments) :
            th.risk_adjustments[i] = Adjustments({s})[1]}

C30_Step ==
    (Scored /\ "risk_adjustments" \in DOMAIN threat' /\ threat'.risk_adjustments = <<>>) =>
        /\ threat'.risk_score = threat.risk_score
        /\ threat'.risk_level = threat.risk_level

\* C30: adjust_risk_by_context with no true signal leaves risk_score and
\* risk_level exactly as calculate_risk set them and records an empty
\* adjustment log.
C30_NeutralContextNoOp == [][C30_Step]_vars

\* the (pid, name) pairs a list of process_start Events reports
Reported(events) ==
    {<<events[i].data.pid.n, events[i].data.process_name>> : i \in 1..Len(events)}

\* C27 as stated: detect_new_processes emits one Event per pair of the
\* symmetric difference of the current set and the stored snapshot, then
\* replaces the snapshot by the current set.
C27_SymmetricDifference ==
    sample.op = "detect_new_processes" =>
        LET current == Pairs(sample.os)
        IN  /\ Reported(sample.new_processes)
                  = (current \ sample.before) \cup (sample.before \ current)
            /\ Len(sample.new_processes) = Cardinality(Reported(sample.new_processes))
            /\ previous_processes = current

\* C27 as amended: detect_new_processes emits one Event per pair of the
\* current set that the stored snapshot lacks, none for a pair that is only
\* in the snapshot, then replaces the snapshot by the current set.
C27_NewPairsOnly ==
    sample.op = "detect_new_processes" =>
        LET current == Pairs(sample.os)
        IN  /\ Reported(sample.new_processes) = current \ sample.before
            /\ Len(sample.new_processes) = Cardinality(Reported(sample.new_processes))
            /\ previous_processes = current

C27_Witness ==
    /\ sample.op = "detect_new_processes"
    /\ sample.before = Pairs([procs |-> {P1, P2}])
    /\ sample.os.procs = {P2, P3}
    /\ Len(sample.new_processes) = 1
    /\ previous_processes = Pairs(sample.os)

\* pair was enumerated, and by every call from its first enumeration on
Steady(pair) ==
    \E i \in 1..Len(history.observed) :
        \A j \in 1..Len(history.observed) : pair \in history.observed[j] <=> j >= i

\* the number of returned Event lists that report pair
Times(pair) ==
    Cardinality({k \in 1..Len(history.returned) : pair \in Reported(history.returned[k])})

\* C28: however detect_new_processes calls on one SystemMonitor follow or
\* overlap each other, a pair that is in every enumerated process set from
\* its first enumeration on is reported exactly once: never twice, and once
\* when every call that enumerated it has returned.
C28_ReportedExactlyOnce ==
    \A pair \in Pairs([procs |-> {P1, P2}]) :
        Steady(pair) =>
            /\ Times(pair) <= 1
            /\ (\A t \in Callers : dnp[t].pc = "idle") => Times(pair) = 1

\* C29: once add_rule has accepted a rule that has the four required fields
\* and a fresh id, check_event on any Event returns a Threat or None and
\* never raises.
C29_AcceptedRuleIsSafe ==
    result.kind # "raise"

====
